---- MODULE Spec2Model ----
(***************************************************************************)
(* A model of the anonymous board (src/app.py): the threads and comments   *)
(* tables of the store, the request handlers of the Flask application and  *)
(* the helpers they call.  Text is modelled as a sequence of one-character *)
(* strings so that trimming, splitting, case folding and pattern matching  *)
(* are computed the way Python and the store compute them.                 *)
(***************************************************************************)
EXTENDS Integers, Sequences, FiniteSets, TLC

VARIABLES threads, comments, threads_id_seq, comments_id_seq, now,
          pc, req, calls, last

vars == <<threads, comments, threads_id_seq, comments_id_seq, now,
          pc, req, calls, last>>

----------------------------------------------------------------------------
(* Bounds of the model *)

\* worker processes serving requests concurrently
NumProcs == 2
\* INSERT statements run in one behaviour
MaxInserts == 3
\* vote requests that match a row served in one behaviour
MaxVotes == 2
\* the ids requests name are 1..MaxId
MaxId == 2
\* thread rows of the stores SpecList draws
MaxListThreads == 11
\* thread rows of the stores SpecTags draws
MaxTagThreads == 3

(* Program constants *)
MAX_THREAD_WORDS == 500
MAX_COMMENT_WORDS == 150
per_page == 5
trending_limit == 10

Procs == 1..NumProcs

----------------------------------------------------------------------------
(* Text *)

Whitespace == {" ", "\t", "\n"}

\* str.lower() on the characters the inputs use
lower(ch) ==
  CASE ch = "A" -> "a" [] ch = "B" -> "b" [] ch = "C" -> "c" [] ch = "G" -> "g"
    [] ch = "K" -> "k" [] ch = "O" -> "o" [] ch = "R" -> "r" [] ch = "T" -> "t"
    [] OTHER -> ch

lower_str(s) == [i \in 1..Len(s) |-> lower(s[i])]

\* str.strip(): leading and trailing whitespace removed
strip(s) ==
  LET idx == {i \in 1..Len(s) : s[i] \notin Whitespace}
  IN  IF idx = {} THEN <<>>
      ELSE LET first == CHOOSE i \in idx : \A j \in 1..(i - 1) : s[j] \in Whitespace
               lst   == CHOOSE i \in idx : \A j \in (i + 1)..Len(s) : s[j] \in Whitespace
           IN  SubSeq(s, first, lst)

\* str.split() with no separator: the positions where a maximal run of
\* non-whitespace characters starts, one per token of the result
split(s) ==
  {i \in 1..Len(s) : s[i] \notin Whitespace /\ (i = 1 \/ s[i - 1] \in Whitespace)}

count_words(text) == Cardinality(split(strip(text)))

\* str.split(','): the entries between the commas, empty ones included
RECURSIVE split_comma(_)
split_comma(s) ==
  LET commas == {i \in 1..Len(s) : s[i] = ","}
  IN  IF commas = {} THEN <<s>>
      ELSE LET c == CHOOSE i \in commas : \A j \in commas : i <= j
           IN  <<SubSeq(s, 1, c - 1)>> \o split_comma(SubSeq(s, c + 1, Len(s)))

\* n words of one letter separated by single spaces
Words(n) == [i \in 1..(2 * n - 1) |-> IF i % 2 = 1 THEN "w" ELSE " "]

----------------------------------------------------------------------------
(* The store *)

Tables == {"threads", "comments"}
Columns == {"upvotes", "downvotes"}

\* a sequence's successor value (SERIAL: nextval is never handed out twice)
nextval(seq) == seq + 1

Table(tbl) == IF tbl = "threads" THEN threads ELSE comments

\* ORDER BY id ASC / DESC of a set of ids
RECURSIVE OrderAsc(_)
OrderAsc(S) ==
  IF S = {} THEN <<>>
  ELSE LET m == CHOOSE x \in S : \A y \in S : x <= y
       IN  <<m>> \o OrderAsc(S \ {m})

RECURSIVE OrderDesc(_)
OrderDesc(S) ==
  IF S = {} THEN <<>>
  ELSE LET m == CHOOSE x \in S : \A y \in S : x >= y
       IN  <<m>> \o OrderDesc(S \ {m})

\* LIMIT n OFFSET k of an ordered result
LimitOffset(rows, n, k) ==
  IF k >= Len(rows) THEN <<>>
  ELSE SubSeq(rows, k + 1, IF k + n <= Len(rows) THEN k + n ELSE Len(rows))

\* (mutant) total // per_page
floor_div(total, n) == total \div n

\* math.ceil(total / per_page)
ceil_div(total, n) == (total + n - 1) \div n

----------------------------------------------------------------------------
(* Requests and responses *)

\* get_conn() opens one connection, conn.close() closes one
get_conn == 1
close == 1

\* what a handler returns: the status, the template rendered or the message,
\* the redirect target, the rows and numbers handed to the template, and the
\* connections the request opened and has not closed when it returns; with
\* it, the Referer header and the tag or query text of the request
Response(op, status, body, max, location, ts, cs, page, total_pages, tags, conns_open) ==
  [op |-> op, status |-> status, body |-> body, max |-> max, location |-> location,
   threads |-> ts, comments |-> cs, page |-> page, total_pages |-> total_pages,
   trending |-> tags, conns_open |-> conns_open, referrer |-> "", text |-> <<>>]

NoResponse == Response("", 0, "", 0, "", <<>>, <<>>, 0, 0, <<>>, 0)

\* render_template(name, ...)
Rendered(op, body, ts, cs, page, total_pages, conns_open) ==
  Response(op, 200, body, 0, "", ts, cs, page, total_pages, <<>>, conns_open)

\* redirect(location)
Redirect(op, location, conns_open) ==
  Response(op, 302, "", 0, location, <<>>, <<>>, 0, 0, <<>>, conns_open)

\* return f"... too long! Max {max} words.", 400
TooLong(op, body, max, conns_open) ==
  Response(op, 400, body, max, "", <<>>, <<>>, 0, 0, <<>>, conns_open)

\* an exception that leaves the handler: Flask answers 500
ServerError(op, body, conns_open) ==
  Response(op, 500, body, 0, "", <<>>, <<>>, 0, 0, <<>>, conns_open)

NoRequest == [op |-> "", tbl |-> "", col |-> "", id |-> 0, rows |-> {}, newval |-> <<>>]

\* request.referrer or '/'
referrer_or_home(referrer) == IF referrer # "" THEN referrer ELSE "/"

\* (mutant) the limit itself is refused
too_many_words_at_limit(content, max) == count_words(content) >= max

\* the word-limit test of both submission handlers
too_many_words(content, max) == count_words(content) > max

\* the ids a request may name
Ids == 1..MaxId

\* the counters of the store, and the vote requests served on each
Counters == Tables \X Columns \X Ids

RECURSIVE Total(_, _)
Total(f, S) ==
  IF S = {} THEN 0
  ELSE LET x == CHOOSE y \in S : TRUE IN f[x] + Total(f, S \ {x})

\* the INSERT statements run
Inserted == threads_id_seq + comments_id_seq

\* the vote requests that matched a row, served or being served
Voted ==
  Total(calls, Counters)
    + Cardinality({p \in Procs : pc[p] = "executed" /\ req[p].rows # {}})

\* no request is being served
Serial == \A p \in Procs : pc[p] = "idle"

\* the worker that serves the requests when they are served one at a time
Worker == CHOOSE p \in Procs : TRUE

----------------------------------------------------------------------------
(* POST /new and GET /new (new_thread) *)

new_thread_POST(form) ==
  /\ IF too_many_words(form.content, MAX_THREAD_WORDS)
     THEN /\ last' = TooLong("new_thread", "Thread too long! Max {} words.",
                             MAX_THREAD_WORDS, 0)
          /\ UNCHANGED <<threads, threads_id_seq, now>>
     ELSE /\ Inserted < MaxInserts
          /\ threads_id_seq' = nextval(threads_id_seq)
          /\ threads' = (threads_id_seq' :> [title |-> form.title, content |-> form.content,
                                             created_at |-> now, upvotes |-> 0,
                                             downvotes |-> 0, tags |-> form.tags]) @@ threads
          /\ now' = now + 1
          /\ last' = Redirect("new_thread", "/", get_conn - close)
  /\ UNCHANGED <<comments, comments_id_seq, pc, req, calls>>

new_thread_GET ==
  /\ last' = Rendered("new_thread", "new_thread.html", <<>>, <<>>, 0, 0, 0)
  /\ UNCHANGED <<threads, comments, threads_id_seq, comments_id_seq, now, pc, req, calls>>

----------------------------------------------------------------------------
(* GET and POST /thread/<thread_id> (thread_detail) *)

\* SELECT * FROM threads WHERE id = thread_id; fetchone()
select_thread(ts, thread_id) == IF thread_id \in DOMAIN ts THEN <<thread_id>> ELSE <<>>

\* SELECT * FROM comments WHERE thread_id = thread_id ORDER BY id ASC
select_comments(cs, thread_id) ==
  OrderAsc({c \in DOMAIN cs : cs[c].thread_id = thread_id})

\* (mutant) the schema without the foreign key
references_nothing(thread_id) == TRUE

\* REFERENCES threads(id): the row the comment names must exist
references_thread(thread_id) == thread_id \in DOMAIN threads

thread_detail_GET(thread_id) ==
  /\ last' = Rendered("thread_detail", "thread_detail.html",
                      select_thread(threads, thread_id),
                      select_comments(comments, thread_id), 0, 0,
                      get_conn - close)
  /\ UNCHANGED <<threads, comments, threads_id_seq, comments_id_seq, now, pc, req, calls>>

thread_detail_POST(thread_id, content) ==
  /\ IF too_many_words(content, MAX_COMMENT_WORDS)
     THEN \* returns with the connection of line 121 still open
          /\ last' = TooLong("thread_detail", "Comment too long! Max {} words.",
                             MAX_COMMENT_WORDS, get_conn)
          /\ UNCHANGED <<comments, comments_id_seq, now>>
     ELSE /\ Inserted < MaxInserts
          /\ comments_id_seq' = nextval(comments_id_seq)
          /\ now' = now + 1
          /\ IF references_thread(thread_id)
             THEN /\ comments' = (comments_id_seq' :> [thread_id |-> thread_id,
                                                       content |-> content,
                                                       created_at |-> now,
                                                       upvotes |-> 0, downvotes |-> 0])
                                 @@ comments
                  /\ last' = Rendered("thread_detail", "thread_detail.html",
                                      select_thread(threads, thread_id),
                                      select_comments(comments', thread_id), 0, 0,
                                      get_conn - close)
             ELSE \* the INSERT raises a foreign-key violation out of the handler,
                  \* after the id sequence has advanced; the connection stays open
                  /\ comments' = comments
                  /\ last' = ServerError("thread_detail", "ForeignKeyViolation", get_conn)
  /\ UNCHANGED <<threads, threads_id_seq, pc, req, calls>>

----------------------------------------------------------------------------
(* The four vote handlers: upvote, downvote, comment_upvote, comment_downvote *)

\* (mutant) the UPDATE without its WHERE clause
matched_every_row(tbl, id) == DOMAIN Table(tbl)

\* the rows UPDATE tbl ... WHERE id = %s matches
matched_rows(tbl, id) == {id} \cap DOMAIN Table(tbl)

\* (mutant) read, add one and write back without the row lock
row_never_locked(p, tbl, rows) == FALSE

\* a row another request's uncommitted UPDATE has written is locked until
\* that request commits: the UPDATE of p waits for it
row_locked(p, tbl, rows) ==
  \E q \in Procs \ {p} :
    pc[q] = "executed" /\ req[q].tbl = tbl /\ req[q].rows \cap rows # {}

\* (mutant) SET col = col - 1
decremented(value) == value - 1

\* SET col = col + 1
incremented(value) == value + 1

\* the request reaches its handler, which opens its connection (get_conn)
vote_connect(p, op, tbl, col, id) ==
  /\ pc[p] = "idle"
  /\ pc' = [pc EXCEPT ![p] = "connected"]
  /\ req' = [req EXCEPT ![p] = [op |-> op, tbl |-> tbl, col |-> col, id |-> id,
                                rows |-> {}, newval |-> <<>>]]
  /\ UNCHANGED <<threads, comments, threads_id_seq, comments_id_seq, now, calls, last>>

upvote(p, thread_id) == vote_connect(p, "upvote", "threads", "upvotes", thread_id)

downvote(p, thread_id) == vote_connect(p, "downvote", "threads", "downvotes", thread_id)

comment_upvote(p, comment_id) ==
  vote_connect(p, "comment_upvote", "comments", "upvotes", comment_id)

comment_downvote(p, comment_id) ==
  vote_connect(p, "comment_downvote", "comments", "downvotes", comment_id)

\* c.execute('UPDATE tbl SET col = col + 1 WHERE id = %s'): the new value of
\* each row matched is computed from its latest committed version, under its lock
vote_execute(p) ==
  /\ pc[p] = "connected"
  /\ LET rows == matched_rows(req[p].tbl, req[p].id)
     IN  /\ rows # {} => Voted < MaxVotes
         /\ ~row_locked(p, req[p].tbl, rows)
         /\ req' = [req EXCEPT ![p].rows = rows,
                               ![p].newval =
                                 [id \in rows |->
                                    incremented(Table(req[p].tbl)[id][req[p].col])]]
  /\ pc' = [pc EXCEPT ![p] = "executed"]
  /\ UNCHANGED <<threads, comments, threads_id_seq, comments_id_seq, now, calls, last>>

\* the table with the UPDATE of request r made visible
written(tbl, r) ==
  IF r.tbl = tbl
  THEN [id \in DOMAIN Table(tbl) |->
          IF id \in r.rows THEN [Table(tbl)[id] EXCEPT ![r.col] = r.newval[id]]
          ELSE Table(tbl)[id]]
  ELSE Table(tbl)

\* conn.commit(); conn.close(); return redirect(request.referrer or '/')
vote_commit(p, referrer) ==
  /\ pc[p] = "executed"
  /\ threads' = written("threads", req[p])
  /\ comments' = written("comments", req[p])
  /\ calls' = [k \in Counters |->
                 IF k[1] = req[p].tbl /\ k[2] = req[p].col /\ k[3] \in req[p].rows
                 THEN calls[k] + 1 ELSE calls[k]]
  /\ last' = [Redirect("vote", referrer_or_home(referrer), get_conn - close)
                EXCEPT !.referrer = referrer]
  /\ pc' = [pc EXCEPT ![p] = "idle"]
  /\ req' = [req EXCEPT ![p] = NoRequest]
  /\ UNCHANGED <<threads_id_seq, comments_id_seq, now>>

----------------------------------------------------------------------------
(* Inputs *)

Referrers == {"", "/thread/1"}

\* forms posted to /new: title, content, tags
ThreadForms ==
  { [title |-> <<"C", "a", "t", "s">>, content |-> <<"h", "i", " ", "a", "l", "l">>,
     tags |-> <<"c", "a", "t", "e", "g", "o", "r", "y">>],
    [title |-> <<>>, content |-> <<>>, tags |-> <<>>] }

\* contents posted to /thread/<id>
CommentContents == { <<"o", "k">>, <<" ", " ">> }

\* forms and contents at the word limits
LimitThreadForms ==
  { [title |-> <<"a">>, content |-> Words(MAX_THREAD_WORDS), tags |-> <<>>],
    [title |-> <<"b">>, content |-> <<" ">> \o Words(MAX_THREAD_WORDS + 1) \o <<"\n">>,
     tags |-> <<"g", "o">>],
    [title |-> <<"c">>, content |-> <<"\t">> \o Words(1) \o <<" ", " ">>, tags |-> <<>>] }

LimitCommentContents ==
  { Words(MAX_COMMENT_WORDS) \o <<"\n">>, <<" ">> \o Words(MAX_COMMENT_WORDS + 1),
    Words(2) }

----------------------------------------------------------------------------
(* The application: the requests that write, served one at a time *)

Init ==
  /\ threads = <<>>
  /\ comments = <<>>
  /\ threads_id_seq = 0
  /\ comments_id_seq = 0
  /\ now = 0
  /\ pc = [p \in Procs |-> "idle"]
  /\ req = [p \in Procs |-> NoRequest]
  /\ calls = [k \in Counters |-> 0]
  /\ last = NoResponse

Next ==
  \/ Serial /\ \E form \in ThreadForms : new_thread_POST(form)
  \/ Serial /\ \E thread_id \in Ids, content \in CommentContents :
       thread_detail_POST(thread_id, content)
  \/ Serial /\ \E thread_id \in Ids : upvote(Worker, thread_id)
  \/ Serial /\ \E thread_id \in Ids : downvote(Worker, thread_id)
  \/ Serial /\ \E comment_id \in Ids : comment_upvote(Worker, comment_id)
  \/ Serial /\ \E comment_id \in Ids : comment_downvote(Worker, comment_id)
  \/ vote_execute(Worker)
  \/ \E referrer \in Referrers : vote_commit(Worker, referrer)

Spec == Init /\ [][Next]_vars

----------------------------------------------------------------------------
(* The submission endpoints /new and /thread/<id> at the word limits *)

NextSubmit ==
  \/ \E form \in LimitThreadForms : new_thread_POST(form)
  \/ new_thread_GET
  \/ \E thread_id \in Ids : thread_detail_GET(thread_id)
  \/ \E thread_id \in Ids, content \in LimitCommentContents :
       thread_detail_POST(thread_id, content)

SpecSubmit == Init /\ [][NextSubmit]_vars

----------------------------------------------------------------------------
(* Vote requests of concurrent workers, interleaved statement by statement,
   on a store that holds one thread and one comment on it *)

InitVotes ==
  /\ threads = 1 :> [title |-> <<"C", "a", "t", "s">>, content |-> <<"h", "i">>,
                     created_at |-> 0, upvotes |-> 0, downvotes |-> 0, tags |-> <<>>]
  /\ comments = 1 :> [thread_id |-> 1, content |-> <<"o", "k">>, created_at |-> 1,
                      upvotes |-> 0, downvotes |-> 0]
  /\ threads_id_seq = 1
  /\ comments_id_seq = 1
  /\ now = 2
  /\ pc = [p \in Procs |-> "idle"]
  /\ req = [p \in Procs |-> NoRequest]
  /\ calls = [k \in Counters |-> 0]
  /\ last = NoResponse

NextVotes ==
  \/ \E p \in Procs, thread_id \in Ids : upvote(p, thread_id)
  \/ \E p \in Procs, thread_id \in Ids : downvote(p, thread_id)
  \/ \E p \in Procs, comment_id \in Ids : comment_upvote(p, comment_id)
  \/ \E p \in Procs, comment_id \in Ids : comment_downvote(p, comment_id)
  \/ \E p \in Procs : vote_execute(p)
  \/ \E p \in Procs, referrer \in Referrers : vote_commit(p, referrer)

SpecVotes == InitVotes /\ [][NextVotes]_vars

----------------------------------------------------------------------------
(* The listings: index, tag_filter and search *)

\* text LIKE pat from position i of text and j of pat: % matches any run of
\* characters, _ any one character, a backslash makes the next one literal
RECURSIVE like_from(_, _, _, _)
like_from(text, i, pat, j) ==
  IF j > Len(pat) THEN i > Len(text)
  ELSE IF pat[j] = "%"
       THEN \E k \in i..(Len(text) + 1) : like_from(text, k, pat, j + 1)
  ELSE IF pat[j] = "\\"
       THEN /\ j < Len(pat)
            /\ i <= Len(text)
            /\ text[i] = pat[j + 1]
            /\ like_from(text, i + 1, pat, j + 2)
  ELSE /\ i <= Len(text)
       /\ (pat[j] = "_" \/ text[i] = pat[j])
       /\ like_from(text, i + 1, pat, j + 1)

\* text ILIKE pat
ilike(text, pat) == like_from(lower_str(text), 1, lower_str(pat), 1)

\* '%' + tag + '%', f'%{query}%'
contains_pattern(s) == <<"%">> \o s \o <<"%">>

\* the page of a listing: COUNT(*), then ORDER BY id DESC LIMIT per_page OFFSET offset;
\* the store refuses a negative OFFSET, and the error leaves the handler with
\* its connection open
listing(op, matching, page) ==
  LET offset == (page - 1) * per_page
      total_threads == Cardinality(matching)
      total_pages == ceil_div(total_threads, per_page)
  IN  IF offset < 0
      THEN ServerError(op, "InvalidRowCountInResultOffsetClause", get_conn)
      ELSE Rendered(op, "index.html", LimitOffset(OrderDesc(matching), per_page, offset),
                    <<>>, page, total_pages, get_conn - close)

\* SELECT ... FROM threads
index_rows == DOMAIN threads

\* SELECT ... FROM threads WHERE tags ILIKE '%tag%'
tag_filter_rows(tag) ==
  {id \in DOMAIN threads : ilike(threads[id].tags, contains_pattern(tag))}

\* SELECT ... FROM threads WHERE title ILIKE %s OR content ILIKE %s OR tags ILIKE %s
\* with query = request.args.get('q', '').strip()
search_rows(q) ==
  LET query == strip(q)
  IN  {id \in DOMAIN threads :
         \/ ilike(threads[id].title, contains_pattern(query))
         \/ ilike(threads[id].content, contains_pattern(query))
         \/ ilike(threads[id].tags, contains_pattern(query))}

\* the sidebars (get_popular_threads, get_trending_tags) each open and close a
\* connection of their own; what they return is left out of the response here
index(page) ==
  /\ last' = listing("index", index_rows, page)
  /\ UNCHANGED <<threads, comments, threads_id_seq, comments_id_seq, now, pc, req, calls>>

tag_filter(tag, page) ==
  /\ last' = [listing("tag_filter", tag_filter_rows(tag), page) EXCEPT !.text = tag]
  /\ UNCHANGED <<threads, comments, threads_id_seq, comments_id_seq, now, pc, req, calls>>

search(q, page) ==
  /\ last' = [listing("search", search_rows(q), page) EXCEPT !.text = q]
  /\ UNCHANGED <<threads, comments, threads_id_seq, comments_id_seq, now, pc, req, calls>>

\* the thread rows the drawn stores are made of
ListForms ==
  << [title |-> <<"C", "a", "t", "s">>, content |-> <<"h", "i", " ", "a", "l", "l">>,
      tags |-> <<"c", "a", "t", "e", "g", "o", "r", "y">>],
     [title |-> <<"G", "o">>, content |-> <<"a", " ", "c", "a", "t">>, tags |-> <<>>],
     [title |-> <<"t", "o", "o", "l", "s">>, content |-> <<"o", "k">>,
      tags |-> <<"G", "o", ",", " ", "r", "u", "s", "t">>] >>

\* the page numbers, tags and queries requested
Pages == 0..(ceil_div(MaxListThreads, per_page) + 1)

TagInputs ==
  { <<"c", "a", "t">>, <<"G", "O">>, <<"_">>, <<"%">>, <<"\\">>, <<"r", "y">> }

QueryInputs ==
  { <<>>, <<"C", "A", "T">>, <<"r", "u", "s", "t">>, <<"_">>,
    <<" ", "a", "l", "l">>, <<"g", "o", "r">> }

\* a store of n threads inserted one after the other, thread i made from the
\* form stride * i selects
InitList ==
  /\ \E n \in 0..MaxListThreads, stride \in 1..Len(ListForms) :
       /\ threads = [i \in 1..n |->
                       [title |-> ListForms[((i * stride) % Len(ListForms)) + 1].title,
                        content |-> ListForms[((i * stride) % Len(ListForms)) + 1].content,
                        created_at |-> i - 1, upvotes |-> 0, downvotes |-> 0,
                        tags |-> ListForms[((i * stride) % Len(ListForms)) + 1].tags]]
       /\ threads_id_seq = n
       /\ now = n
  /\ comments = <<>>
  /\ comments_id_seq = 0
  /\ pc = [p \in Procs |-> "idle"]
  /\ req = [p \in Procs |-> NoRequest]
  /\ calls = [k \in Counters |-> 0]
  /\ last = NoResponse

NextList ==
  \/ \E page \in Pages : index(page)
  \/ \E tag \in TagInputs, page \in Pages : tag_filter(tag, page)
  \/ \E q \in QueryInputs, page \in Pages : search(q, page)

SpecList == InitList /\ [][NextList]_vars

----------------------------------------------------------------------------
(* The sidebar helpers *)

\* tag_count[tag] = tag_count.get(tag, 0) + 1 on a dict kept in insertion order
counted(tag_count, tag) ==
  IF \E i \in 1..Len(tag_count) : tag_count[i][1] = tag
  THEN [i \in 1..Len(tag_count) |->
          IF tag_count[i][1] = tag THEN <<tag, tag_count[i][2] + 1>> ELSE tag_count[i]]
  ELSE Append(tag_count, <<tag, 1>>)

\* the loop over the entries of the rows scanned
RECURSIVE tally(_, _)
tally(tag_count, entries) ==
  IF entries = <<>> THEN tag_count
  ELSE LET tag == lower_str(strip(Head(entries)))
       IN  tally(IF tag # <<>> THEN counted(tag_count, tag) ELSE tag_count, Tail(entries))

RECURSIVE entries_of(_)
entries_of(rows) ==
  IF rows = <<>> THEN <<>> ELSE split_comma(Head(rows)) \o entries_of(Tail(rows))

\* (mutant) a descending sort that puts the later of two equal counts first
RECURSIVE sorted_unstable(_)
sorted_unstable(items) ==
  IF items = <<>> THEN <<>>
  ELSE LET rest == sorted_unstable(SubSeq(items, 1, Len(items) - 1))
           x == items[Len(items)]
           before == {i \in 1..Len(rest) : rest[i][2] > x[2]}
           k == Cardinality(before)
       IN  SubSeq(rest, 1, k) \o <<x>> \o SubSeq(rest, k + 1, Len(rest))

\* sorted(items, key=lambda x: x[1], reverse=True): stable, so items of equal
\* count keep their order
RECURSIVE sorted_by_count_desc(_)
sorted_by_count_desc(items) ==
  IF items = <<>> THEN <<>>
  ELSE LET rest == sorted_by_count_desc(SubSeq(items, 1, Len(items) - 1))
           x == items[Len(items)]
           before == {i \in 1..Len(rest) : rest[i][2] >= x[2]}
           k == Cardinality(before)
       IN  SubSeq(rest, 1, k) \o <<x>> \o SubSeq(rest, k + 1, Len(rest))

\* get_trending_tags(limit) on the tags of the rows, in the order the scan
\* SELECT tags FROM threads WHERE tags != '' returns them
get_trending_tags(rows, limit) ==
  LET trending == sorted_by_count_desc(tally(<<>>, entries_of(rows)))
      n == IF Len(trending) < limit THEN Len(trending) ELSE limit
  IN  [i \in 1..n |-> trending[i][1]]

\* the orders in which a scan without ORDER BY may return the rows S
ScanOrders(S) ==
  {f \in [1..Cardinality(S) -> S] : \A i, j \in 1..Cardinality(S) : i # j => f[i] # f[j]}

trending_tags(scan) ==
  /\ last' = Response("get_trending_tags", 0, "", 0, "", scan, <<>>, 0, 0,
                      get_trending_tags([i \in 1..Len(scan) |-> threads[scan[i]].tags],
                                        trending_limit), get_conn - close)
  /\ UNCHANGED <<threads, comments, threads_id_seq, comments_id_seq, now, pc, req, calls>>

\* the tags fields of the stores drawn
TagForms ==
  { <<"G", "o", ",", " ", "r", "u", "s", "t">>,
    <<"r", "u", "s", "t", ",", " ", "G", "O">>,
    <<>>,
    <<" ", ",", "a", ",", ",", " ", "A", " ">>,
    <<"a", ",", "b", ",", "c", ",", "d", ",", "e", ",", "f", ",", "g", ",", "h", ",",
      "i", ",", "j", ",", "k">>,
    <<"K", ",", "k", " ">> }

InitTags ==
  /\ \E n \in 0..MaxTagThreads :
       \E tags \in [1..n -> TagForms] :
         /\ threads = [i \in 1..n |->
                         [title |-> <<"t">>, content |-> <<"c">>, created_at |-> i - 1,
                          upvotes |-> 0, downvotes |-> 0, tags |-> tags[i]]]
         /\ threads_id_seq = n
         /\ now = n
  /\ comments = <<>>
  /\ comments_id_seq = 0
  /\ pc = [p \in Procs |-> "idle"]
  /\ req = [p \in Procs |-> NoRequest]
  /\ calls = [k \in Counters |-> 0]
  /\ last = NoResponse

NextTags ==
  \E scan \in ScanOrders({id \in DOMAIN threads : threads[id].tags # <<>>}) :
    trending_tags(scan)

SpecTags == InitTags /\ [][NextTags]_vars

----------------------------------------------------------------------------
(* Properties *)

Value(k) == Table(k[1])[k[3]][k[2]]

Exists(k) == k[3] \in DOMAIN Table(k[1])

\* C1: in SpecVotes, where every counter starts at 0, each counter of an
\* existing row equals the number of vote requests served on it, however the
\* requests were interleaved: no increment is lost.
C1_NoLostIncrement ==
  \A k \in Counters : Exists(k) => Value(k) = 0 + calls[k]

\* C1: one increment of a counter is committed, a second request holds the
\* row lock with its UPDATE executed and a third, connected, waits for it
C1_Witness ==
  \E p, q \in Procs :
    /\ p # q
    /\ pc[p] = "executed" /\ req[p].rows # {}
    /\ pc[q] = "connected"
    /\ req[q].tbl = req[p].tbl /\ req[q].col = req[p].col /\ req[q].id = req[p].id
    /\ calls[<<req[p].tbl, req[p].col, req[p].id>>] >= 1

\* C3: a vote request whose id matches no row of its table when its UPDATE
\* runs matches nothing, changes no row of either table at any of its steps,
\* and is answered with a redirect to the referring page, or to / without one.
C3_VoteOnMissingId ==
  [][\A p \in Procs :
       /\ (pc[p] = "connected" /\ pc'[p] = "executed"
             /\ req[p].id \notin DOMAIN Table(req[p].tbl))
            => (req'[p].rows = {} /\ threads' = threads /\ comments' = comments)
       /\ (pc[p] = "executed" /\ pc'[p] = "idle" /\ req[p].rows = {})
            => /\ threads' = threads /\ comments' = comments
               /\ last'.op = "vote"
               /\ last'.status = 302
               /\ last'.location = (IF last'.referrer = "" THEN "/" ELSE last'.referrer)
     ]_vars

\* C3: the UPDATE of a vote on an id that matches no row has run, after an
\* earlier vote was answered with a redirect
C3_Witness ==
  \E p \in Procs :
    /\ pc[p] = "executed" /\ req[p].rows = {}
    /\ req[p].id \notin DOMAIN Table(req[p].tbl)
    /\ last.status = 302 /\ last.op = "vote"

\* the fields of a row that no request may rewrite
SameThread(a, b) ==
  a.title = b.title /\ a.content = b.content /\ a.tags = b.tags /\ a.created_at = b.created_at

SameComment(a, b) ==
  a.thread_id = b.thread_id /\ a.content = b.content /\ a.created_at = b.created_at

\* the value of a counter after a step, and the counters a step changes
NextValue(k) == (IF k[1] = "threads" THEN threads' ELSE comments')[k[3]][k[2]]

Changed == {k \in Counters : Exists(k) /\ NextValue(k) # Value(k)}

\* C4: every stored comment names a stored thread; a comment POST for an id
\* with no thread is answered with a server error, not a rendered page, and
\* adds no row; a comment POST to an existing thread adds exactly one comment
\* with that thread_id, which is among the comments the same request renders.
C4_CommentReferencesThread ==
  /\ \A c \in DOMAIN comments : comments[c].thread_id \in DOMAIN threads
  /\ [][/\ \A c \in DOMAIN comments' : comments'[c].thread_id \in DOMAIN threads'
        /\ \A thread_id \in Ids, content \in CommentContents :
             thread_detail_POST(thread_id, content) =>
               IF thread_id \notin DOMAIN threads
               THEN /\ last'.status >= 500
                    /\ last'.body # "thread_detail.html"
                    /\ comments' = comments
               ELSE \E c \in DOMAIN comments' \ DOMAIN comments :
                      /\ DOMAIN comments' = DOMAIN comments \cup {c}
                      /\ \A d \in DOMAIN comments : comments'[d] = comments[d]
                      /\ comments'[c].thread_id = thread_id
                      /\ comments'[c].content = content
                      /\ last'.status = 200
                      /\ last'.threads = <<thread_id>>
                      /\ \E i \in 1..Len(last'.comments) : last'.comments[i] = c
                      /\ \A i \in 1..Len(last'.comments) :
                           comments'[last'.comments[i]].thread_id = thread_id
       ]_vars

\* C4: a thread holds a comment, and a later comment POST for an id with no
\* thread has been answered with the server error
C4_Witness ==
  /\ \E c \in DOMAIN comments : comments[c].thread_id \in DOMAIN threads
  /\ comments_id_seq > Cardinality(DOMAIN comments)
  /\ last.op = "thread_detail" /\ last.status = 500

C9_NonEmptyText ==
  /\ \A id \in DOMAIN threads :
       threads[id].title # <<>> /\ strip(threads[id].content) # <<>>
  /\ \A id \in DOMAIN comments : strip(comments[id].content) # <<>>

\* the whitespace-delimited tokens of a text: one for each place where a run
\* of characters other than whitespace ends
TokenCount(s) ==
  Cardinality({i \in 1..Len(s) :
                 s[i] \notin Whitespace /\ (i = Len(s) \/ s[i + 1] \in Whitespace)})

\* the answer to a submission over the limit: status 400, a message that
\* names the limit, and both tables as they were
Rejected(message, limit) ==
  /\ last'.status = 400
  /\ last'.body = message /\ last'.max = limit
  /\ threads' = threads /\ comments' = comments

ThreadAccepted(form) ==
  /\ \E id \in DOMAIN threads' \ DOMAIN threads :
       /\ DOMAIN threads' = DOMAIN threads \cup {id}
       /\ threads'[id].title = form.title
       /\ threads'[id].content = form.content
       /\ threads'[id].tags = form.tags
  /\ \A id \in DOMAIN threads : threads'[id] = threads[id]
  /\ comments' = comments
  /\ last'.status = 302 /\ last'.location = "/"

CommentAccepted(thread_id, content) ==
  /\ \E c \in DOMAIN comments' \ DOMAIN comments :
       /\ DOMAIN comments' = DOMAIN comments \cup {c}
       /\ comments'[c].thread_id = thread_id
       /\ comments'[c].content = content
  /\ \A c \in DOMAIN comments : comments'[c] = comments[c]
  /\ threads' = threads
  /\ last'.status = 200

ThreadSubmission(form) ==
  new_thread_POST(form) =>
    IF TokenCount(form.content) <= 500
    THEN ThreadAccepted(form)
    ELSE Rejected("Thread too long! Max {} words.", 500)

\* C2 as stated: a thread submission is accepted exactly when its content has
\* at most 500 words and a comment submission exactly when it has at most 150;
\* an accepted one inserts exactly one row, a refused one is answered 400 with
\* the limit named and leaves both tables as they were.
C2_AcceptedIffWithinLimit ==
  [][/\ \A form \in LimitThreadForms : ThreadSubmission(form)
     /\ \A thread_id \in Ids, content \in LimitCommentContents :
          thread_detail_POST(thread_id, content) =>
            IF TokenCount(content) <= 150
            THEN CommentAccepted(thread_id, content)
            ELSE Rejected("Comment too long! Max {} words.", 150)
    ]_vars

\* C2 amended: as above, with the comment submitted to an existing thread; a
\* comment over the limit is refused with 400 whatever thread it names.
C2_WordLimit ==
  [][/\ \A form \in LimitThreadForms : ThreadSubmission(form)
     /\ \A thread_id \in Ids, content \in LimitCommentContents :
          thread_detail_POST(thread_id, content) =>
            IF TokenCount(content) <= 150
            THEN thread_id \in DOMAIN threads => CommentAccepted(thread_id, content)
            ELSE Rejected("Comment too long! Max {} words.", 150)
    ]_vars

\* C2: a thread of exactly 500 words and a comment of exactly 150 words are
\* stored, and a submission over its limit has just been refused
C2_Witness ==
  /\ \E id \in DOMAIN threads : TokenCount(threads[id].content) = 500
  /\ \E c \in DOMAIN comments : TokenCount(comments[c].content) = 150
  /\ last.status = 400

\* C10: a request that ends with a rendered page, a redirect or the 400 of the
\* word limit has closed every connection it opened.
C10_ConnectionsClosed ==
  last.status \in {200, 302, 400} => last.conns_open = 0

\* the k-th id of S counting down from the newest
KthNewest(S, k) == CHOOSE x \in S : Cardinality({y \in S : y > x}) = k - 1

\* the ids at positions 5(p-1)+1 .. min(5p, |S|) of S in descending order
PageOf(S, p) ==
  LET upto == IF 5 * p <= Cardinality(S) THEN 5 * p ELSE Cardinality(S)
  IN  [i \in 1..(upto - 5 * (p - 1)) |-> KthNewest(S, 5 * (p - 1) + i)]

\* ceil(n / 5)
PagesFor(n) == CHOOSE t \in 0..n : 5 * t >= n /\ 5 * (t - 1) < n

RECURSIVE PagesUpTo(_)
PagesUpTo(n) ==
  IF n = 0 THEN <<>> ELSE PagesUpTo(n - 1) \o listing("index", index_rows, n).threads

\* C5: over a store of T threads, every page p >= 1 of the home listing is
\* rendered with total_pages = ceil(T/5) and the threads at positions
\* 5(p-1)+1 .. min(5p, T) of the descending-id list, at most 5 of them and
\* none beyond the last page; the pages 1..total_pages are pairwise disjoint
\* and, in page order, make up the whole descending-id list.
C5_Pagination ==
  LET T == Cardinality(DOMAIN threads)
      page(p) == listing("index", index_rows, p)
  IN  /\ \A p \in Pages \ {0} :
           /\ page(p).status = 200
           /\ page(p).total_pages = PagesFor(T)
           /\ page(p).threads = PageOf(DOMAIN threads, p)
           /\ Len(page(p).threads) <= 5
           /\ p > PagesFor(T) => page(p).threads = <<>>
      /\ \A p, q \in 1..PagesFor(T) :
           p # q => \A i \in 1..Len(page(p).threads), j \in 1..Len(page(q).threads) :
                      page(p).threads[i] # page(q).threads[j]
      /\ PagesUpTo(PagesFor(T)) = [i \in 1..T |-> KthNewest(DOMAIN threads, i)]
      /\ (last.op = "index" /\ last.page >= 1) =>
           /\ last.status = 200
           /\ last.total_pages = PagesFor(T)
           /\ last.threads = PageOf(DOMAIN threads, last.page)

\* C5: the third and last page of a store of eleven or more threads has been
\* rendered, and is not full
C5_Witness ==
  /\ last.op = "index" /\ last.status = 200
  /\ last.page = 3 /\ last.total_pages = 3
  /\ Len(last.threads) \in 1..4

\* s occurs in text as a case-insensitive substring
Occurs(s, text) ==
  \E k \in 0..(Len(text) - Len(s)) :
    \A i \in 1..Len(s) : lower(text[k + i]) = lower(s[i])

TaggedWith(s) == {id \in DOMAIN threads : Occurs(s, threads[id].tags)}

Mentioning(s) ==
  {id \in DOMAIN threads :
     \/ Occurs(s, threads[id].title)
     \/ Occurs(s, threads[id].content)
     \/ Occurs(s, threads[id].tags)}

\* C6: the page /tag/{s} renders is the page of the threads whose tags contain
\* s, and the page /search?q=s renders is the page of the threads whose title,
\* content or tags contain s, as a case-insensitive literal substring, in
\* descending id order and pages of 5.
C6_LiteralSubstring ==
  /\ (last.op = "tag_filter" /\ last.page >= 1) =>
       /\ last.status = 200
       /\ last.total_pages = PagesFor(Cardinality(TaggedWith(last.text)))
       /\ last.threads = PageOf(TaggedWith(last.text), last.page)
  /\ (last.op = "search" /\ last.page >= 1) =>
       /\ last.status = 200
       /\ last.total_pages = PagesFor(Cardinality(Mentioning(last.text)))
       /\ last.threads = PageOf(Mentioning(last.text), last.page)

\* the tags fields the last scan returned, in scan order, and their entries
ScannedTags == [i \in 1..Len(last.threads) |-> threads[last.threads[i]].tags]

ScannedEntries == entries_of(ScannedTags)

\* the trimmed, lower-cased form of the i-th entry scanned
Normal(i) == lower_str(strip(ScannedEntries[i]))

TagsSeen == {Normal(i) : i \in 1..Len(ScannedEntries)} \ {<<>>}

CountOf(tag) == Cardinality({i \in 1..Len(ScannedEntries) : Normal(i) = tag})

FirstSeen(tag) ==
  CHOOSE i \in 1..Len(ScannedEntries) :
    Normal(i) = tag /\ \A j \in 1..(i - 1) : Normal(j) # tag

\* C7: get_trending_tags(10) scans exactly the threads with non-empty tags and
\* returns at most 10 distinct tags, each the trimmed lower-cased form of a
\* non-empty comma-separated entry; counting a tag by the number of such
\* entries, the result is in non-increasing count order, tags of equal count
\* are in the order first encountered in the scan, no omitted tag has a
\* higher count than a returned one, and a scan returning 'Go, rust' then
\* 'rust, GO' gives go then rust.
C7_TrendingTags ==
  last.op = "get_trending_tags" =>
    LET result == last.trending
    IN  /\ {last.threads[i] : i \in 1..Len(last.threads)}
             = {id \in DOMAIN threads : threads[id].tags # <<>>}
        /\ Len(result) <= trending_limit
        /\ \A i \in 1..Len(result) : result[i] \in TagsSeen
        /\ \A i, j \in 1..Len(result) :
             i < j =>
               /\ result[i] # result[j]
               /\ CountOf(result[i]) >= CountOf(result[j])
               /\ CountOf(result[i]) = CountOf(result[j])
                    => FirstSeen(result[i]) < FirstSeen(result[j])
        /\ \A tag \in TagsSeen :
             (\A i \in 1..Len(result) : result[i] # tag)
               => \A i \in 1..Len(result) : CountOf(tag) <= CountOf(result[i])
        /\ ScannedTags = << <<"G", "o", ",", " ", "r", "u", "s", "t">>,
                            <<"r", "u", "s", "t", ",", " ", "G", "O">> >>
             => result = << <<"g", "o">>, <<"r", "u", "s", "t">> >>

\* C7: eleven or more tags were tallied with differing counts, two of the ten
\* returned tie, and a tag was left out
C7_Witness ==
  /\ last.op = "get_trending_tags"
  /\ Len(last.trending) = trending_limit
  /\ Cardinality(TagsSeen) > trending_limit
  /\ CountOf(last.trending[1]) > CountOf(last.trending[2])
  /\ CountOf(last.trending[2]) = CountOf(last.trending[3])

====
